---- MODULE Spec2Model ----
(***************************************************************************)
(* Model of src/metric.rs: the Metric trait (add, inc, count, reset) and   *)
(* its two implementations, the unit type () and AtomicUsize.              *)
(*                                                                         *)
(* The AtomicUsize cell is accessed with Ordering::Relaxed only.  For one  *)
(* location this means: all writes are totally ordered (the modification   *)
(* order, mo); a read-modify-write (fetch_add) reads the last write of mo; *)
(* a load may read any write that is not older than what its thread is     *)
(* already bound to see (view).  A thread is bound to see its own accesses *)
(* and whatever happens-before it; here the only cross-thread              *)
(* happens-before edges are thread start and join.  Across threads,        *)
(* "before" therefore means happens-before throughout this module.         *)
(*                                                                         *)
(* calls and adds are history variables: they record the calls made on the *)
(* Metric interface and the arguments passed to Metric::add.               *)
(***************************************************************************)
EXTENDS Integers, Sequences, FiniteSets

VARIABLES impl, mo, view, pc, arg, ret, joined, calls, adds

vars == <<impl, mo, view, pc, arg, ret, joined, calls, adds>>

----------------------------------------------------------------------------
(* Bounds *)

W == 5
NumWorkers == 1
MaxCalls == 3
MaxSeqCalls == 4

Modulus == 2 ^ W

Workers == 1 .. NumWorkers
Main == NumWorkers + 1
Threads == Workers \cup {Main}

InitValues == {0, Modulus - 1}
ArgValues == {2, Modulus - 1}
SeqArgValues == {5, 10, Modulus - 1}

(* Option<usize>: the value last returned by count() to a thread, if any *)
None == <<>>
Some(v) == <<v>>

----------------------------------------------------------------------------
(* Helpers *)

Last(s) == s[Len(s)]

RECURSIVE SumSeq(_)
SumSeq(s) == IF s = <<>> THEN 0 ELSE s[1] + SumSeq(Tail(s))

RECURSIVE SumAll(_, _)
SumAll(f, S) ==
  IF S = {} THEN 0
  ELSE LET x == CHOOSE y \in S : TRUE IN f[x] + SumAll(f, S \ {x})

Max(a, b) == IF a >= b THEN a ELSE b

TotalCalls == SumAll([t \in Threads |-> Len(calls[t])], Threads)

----------------------------------------------------------------------------
(* usize arithmetic and the accesses of the atomic cell *)

SaturatingAdd(c, v) == IF c + v >= Modulus THEN Modulus - 1 ELSE c + v

WrappingAdd(c, v) == (c + v) % Modulus

RmwSourceStale(t) == view[t] .. Len(mo)

RmwSource(t) == {Len(mo)}

Readable(t) == view[t] .. Len(mo)

----------------------------------------------------------------------------
(* Calls on the Metric interface made by the host *)

CallAdd(t, v) ==
  /\ pc[t] = "ready"
  /\ pc' = [pc EXCEPT ![t] = "add"]
  /\ arg' = [arg EXCEPT ![t] = v]
  /\ calls' = [calls EXCEPT ![t] = Append(@, "add")]
  /\ adds' = [adds EXCEPT ![t] = Append(@, v)]
  /\ UNCHANGED <<impl, mo, view, ret, joined>>

CallInc(t) ==
  /\ pc[t] = "ready"
  /\ pc' = [pc EXCEPT ![t] = "inc"]
  /\ calls' = [calls EXCEPT ![t] = Append(@, "inc")]
  /\ UNCHANGED <<impl, mo, view, arg, ret, joined, adds>>

CallCount(t) ==
  /\ pc[t] = "ready"
  /\ pc' = [pc EXCEPT ![t] = "count"]
  /\ calls' = [calls EXCEPT ![t] = Append(@, "count")]
  /\ UNCHANGED <<impl, mo, view, arg, ret, joined, adds>>

CallReset(t) ==
  /\ pc[t] = "ready"
  /\ pc' = [pc EXCEPT ![t] = "reset"]
  /\ calls' = [calls EXCEPT ![t] = Append(@, "reset")]
  /\ UNCHANGED <<impl, mo, view, arg, ret, joined, adds>>

----------------------------------------------------------------------------
(* Method bodies *)

IncByTwo(t) ==
  /\ pc[t] = "inc"
  /\ pc' = [pc EXCEPT ![t] = "add"]
  /\ arg' = [arg EXCEPT ![t] = 2]
  /\ adds' = [adds EXCEPT ![t] = Append(@, 2)]
  /\ UNCHANGED <<impl, mo, view, ret, joined, calls>>

Inc(t) ==
  /\ pc[t] = "inc"
  /\ pc' = [pc EXCEPT ![t] = "add"]
  /\ arg' = [arg EXCEPT ![t] = 1]
  /\ adds' = [adds EXCEPT ![t] = Append(@, 1)]
  /\ UNCHANGED <<impl, mo, view, ret, joined, calls>>

ResetClears(t) ==
  /\ pc[t] = "reset"
  /\ pc' = [pc EXCEPT ![t] = "ready"]
  /\ IF impl = "AtomicUsize"
       THEN /\ mo' = Append(mo, 0)
            /\ view' = [view EXCEPT ![t] = Len(mo) + 1]
       ELSE UNCHANGED <<mo, view>>
  /\ UNCHANGED <<impl, arg, ret, joined, calls, adds>>

Reset(t) ==
  /\ pc[t] = "reset"
  /\ pc' = [pc EXCEPT ![t] = "ready"]
  /\ UNCHANGED <<impl, mo, view, arg, ret, joined, calls, adds>>

AddUnit(t) ==
  /\ impl = "Unit"
  /\ pc[t] = "add"
  /\ pc' = [pc EXCEPT ![t] = "ready"]
  /\ arg' = [arg EXCEPT ![t] = 0]
  /\ UNCHANGED <<impl, mo, view, ret, joined, calls, adds>>

CountUnitCalls(t) ==
  /\ impl = "Unit"
  /\ pc[t] = "count"
  /\ pc' = [pc EXCEPT ![t] = "ready"]
  /\ ret' = [ret EXCEPT ![t] = Some(Len(adds[t]))]
  /\ UNCHANGED <<impl, mo, view, arg, joined, calls, adds>>

CountUnit(t) ==
  /\ impl = "Unit"
  /\ pc[t] = "count"
  /\ pc' = [pc EXCEPT ![t] = "ready"]
  /\ ret' = [ret EXCEPT ![t] = Some(0)]
  /\ UNCHANGED <<impl, mo, view, arg, joined, calls, adds>>

AddAtomicBlocking(t) ==
  /\ impl = "AtomicUsize"
  /\ pc[t] = "add"
  /\ Last(mo) + arg[t] < Modulus
  /\ mo' = Append(mo, Last(mo) + arg[t])
  /\ view' = [view EXCEPT ![t] = Len(mo) + 1]
  /\ pc' = [pc EXCEPT ![t] = "ready"]
  /\ arg' = [arg EXCEPT ![t] = 0]
  /\ UNCHANGED <<impl, ret, joined, calls, adds>>

AddAtomic(t) ==
  /\ impl = "AtomicUsize"
  /\ pc[t] = "add"
  /\ \E i \in RmwSource(t) :
       mo' = Append(mo, WrappingAdd(mo[i], arg[t]))
  /\ view' = [view EXCEPT ![t] = Len(mo) + 1]
  /\ pc' = [pc EXCEPT ![t] = "ready"]
  /\ arg' = [arg EXCEPT ![t] = 0]
  /\ UNCHANGED <<impl, ret, joined, calls, adds>>

CountAtomic(t) ==
  /\ impl = "AtomicUsize"
  /\ pc[t] = "count"
  /\ \E i \in Readable(t) :
       /\ ret' = [ret EXCEPT ![t] = Some(mo[i])]
       /\ view' = [view EXCEPT ![t] = i]
  /\ pc' = [pc EXCEPT ![t] = "ready"]
  /\ UNCHANGED <<impl, mo, arg, joined, calls, adds>>

----------------------------------------------------------------------------
(* Threads of the host: the main thread joins a worker that has ended *)

Join(t) ==
  /\ t \in Workers
  /\ pc[Main] = "ready"
  /\ pc[t] = "ready"
  /\ pc' = [pc EXCEPT ![t] = "exited"]
  /\ joined' = joined \cup {t}
  /\ view' = [view EXCEPT ![Main] = Max(@, view[t])]
  /\ UNCHANGED <<impl, mo, arg, ret, calls, adds>>

----------------------------------------------------------------------------
(* Specifications *)

InitThreads ==
  /\ view = [t \in Threads |-> 1]
  /\ pc = [t \in Threads |-> "ready"]
  /\ arg = [t \in Threads |-> 0]
  /\ ret = [t \in Threads |-> None]
  /\ joined = {}
  /\ calls = [t \in Threads |-> <<>>]
  /\ adds = [t \in Threads |-> <<>>]

Init ==
  /\ \/ impl = "Unit" /\ mo = <<0>>
     \/ impl = "AtomicUsize" /\ \E i \in InitValues : mo = <<i>>
  /\ InitThreads

Body(t) ==
  \/ Inc(t)
  \/ Reset(t)
  \/ AddUnit(t)
  \/ CountUnit(t)
  \/ AddAtomic(t)
  \/ CountAtomic(t)

Call(t, V) ==
  \/ \E v \in V : CallAdd(t, v)
  \/ CallInc(t)
  \/ CallCount(t)
  \/ CallReset(t)

Next ==
  \/ TotalCalls < MaxCalls /\ \E t \in Threads : Call(t, ArgValues)
  \/ \E t \in Threads : Body(t)
  \/ \E t \in Workers : Join(t)

Spec == Init /\ [][Next]_vars

(* One thread, counter constructed with 0 *)
InitSeq ==
  /\ impl \in {"Unit", "AtomicUsize"}
  /\ mo = <<0>>
  /\ InitThreads

NextSeq ==
  \/ TotalCalls < MaxSeqCalls /\ Call(Main, SeqArgValues)
  \/ Body(Main)

SpecSeq == InitSeq /\ [][NextSeq]_vars

----------------------------------------------------------------------------
(* Vocabulary of the properties *)

Atomic == impl = "AtomicUsize"

(* thread t returns from the method op in this step *)
Returns(t, op) == pc[t] = op /\ pc'[t] = "ready"

(* thread t is idle and its last call on the interface was op *)
Returned(t, op) ==
  /\ pc[t] = "ready"
  /\ calls[t] # <<>>
  /\ Last(calls[t]) = op

NumCalls(t, op) == Cardinality({k \in 1 .. Len(calls[t]) : calls[t][k] = op})

NumIncs == SumAll([t \in Threads |-> NumCalls(t, "inc")], Threads)

OnlyIncs ==
  \A t \in Threads : \A k \in 1 .. Len(calls[t]) : calls[t][k] \in {"inc", "count"}

IncsDone == \A t \in Threads : pc[t] \notin {"inc", "add"}

AddsDone == \A t \in Threads : pc[t] # "add"

(* an add call is named by its thread and its position among the thread's adds *)
AddIds == UNION {{<<u, k>> : k \in 1 .. Len(adds[u])} : u \in Threads}

CompletedAdds(u) ==
  {<<u, k>> : k \in 1 .. (IF pc[u] = "add" THEN Len(adds[u]) - 1 ELSE Len(adds[u]))}

(* the add calls that happen-before the current point of thread t: its own  *)
(* completed calls, and for the main thread those of the workers it joined  *)
KnownAdds(t) ==
  CompletedAdds(t) \cup
    (IF t = Main THEN UNION {CompletedAdds(u) : u \in joined} ELSE {})

RECURSIVE SumIds(_)
SumIds(S) ==
  IF S = {} THEN 0
  ELSE LET id == CHOOSE x \in S : TRUE
       IN adds[id[1]][id[2]] + SumIds(S \ {id})

AllAddsSum == SumAll([t \in Threads |-> SumSeq(adds[t])], Threads)

Legit(t, r) ==
  \E S \in SUBSET AddIds :
    /\ KnownAdds(t) \subseteq S
    /\ r = (mo[1] + SumIds(S)) % Modulus

NoWrap == mo[1] + AllAddsSum < Modulus

EndsWith(s, e) ==
  /\ Len(s) >= Len(e)
  /\ SubSeq(s, Len(s) - Len(e) + 1, Len(s)) = e

----------------------------------------------------------------------------
(* C1: on an atomic counter constructed with 0, after n inc() calls made    *)
(* concurrently by several threads and nothing but inc() and count(), the   *)
(* counter holds exactly n once all incs have completed, and count() by the *)
(* thread that has joined all the others returns exactly n: no update is    *)
(* lost.                                                                    *)
C1_NoLostIncrement ==
  /\ []((Atomic /\ mo[1] = 0 /\ OnlyIncs /\ IncsDone) => Last(mo) = NumIncs)
  /\ [][(Atomic /\ mo[1] = 0 /\ OnlyIncs /\ joined = Workers
          /\ Returns(Main, "count"))
        => ret'[Main] = Some(NumIncs)]_vars

C1_Witness ==
  /\ Atomic /\ mo[1] = 0 /\ OnlyIncs /\ joined = Workers
  /\ Returned(Main, "count")
  /\ NumCalls(Main, "inc") >= 1
  /\ \E w \in Workers : NumCalls(w, "inc") >= 1
  /\ ret[Main] = Some(NumIncs)

(* C2: one thread, atomic counter constructed with 0: the counter holds the *)
(* sum of the arguments of the completed adds modulo 2^W, count() returns   *)
(* that value, add(5), inc(), add(10) gives 16, and a sum above 2^W - 1     *)
(* wraps around.                                                            *)
C2_SequentialSumWraps ==
  Atomic =>
    /\ Last(mo) = SumIds(CompletedAdds(Main)) % Modulus
    /\ Returned(Main, "count") => ret[Main] = Some(SumSeq(adds[Main]) % Modulus)
    /\ (Returned(Main, "count") /\ adds[Main] = <<5, 1, 10>>)
         => ret[Main] = Some(16)

C2_Witness ==
  /\ Atomic
  /\ Returned(Main, "count")
  /\ calls[Main] = <<"add", "inc", "add", "count">>
  /\ SumSeq(adds[Main]) >= Modulus
  /\ ret[Main] = Some(SumSeq(adds[Main]) - Modulus)

(* C3: for the unit type, whatever add, inc and reset calls were made by    *)
(* whatever threads, every count() returns 0.                               *)
C3_UnitCountsZero ==
  impl = "Unit" => \A t \in Threads : ret[t] \in {None, Some(0)}

C3_Witness ==
  /\ impl = "Unit"
  /\ \E t \in Threads :
       /\ Returned(t, "count")
       /\ ret[t] = Some(0)
       /\ adds[t] # <<>>
       /\ SumSeq(adds[t]) > 0

(* C4: count() called right after reset() returns 0, whatever the counter   *)
(* held before.                                                             *)
C4_ResetZeroes ==
  (Returned(Main, "count") /\ EndsWith(calls[Main], <<"reset", "count">>))
    => ret[Main] = Some(0)

C6_IncIsAddOne ==
  /\ [](\A t \in Threads :
          (pc[t] = "add" /\ Last(calls[t]) = "inc")
            => (arg[t] = 1 /\ Last(adds[t]) = 1))
  /\ [][\A t \in Threads :
          (Returns(t, "add") /\ Last(calls[t]) = "inc")
            => IF Atomic
                 THEN mo' = Append(mo, (Last(mo) + 1) % Modulus)
                 ELSE mo' = mo]_vars

C6_Witness ==
  /\ Atomic
  /\ mo = <<Modulus - 1, 0>>
  /\ \E t \in Threads : Returned(t, "inc")

C8_Infallible ==
  /\ \A t \in Threads :
       pc[t] \in {"add", "inc", "count", "reset"} => ENABLED Body(t)
  /\ \A k \in 1 .. Len(mo) : mo[k] \in 0 .. Modulus - 1

C8_Witness ==
  /\ Atomic
  /\ Last(mo) = Modulus - 1
  /\ \E t \in Threads : pc[t] = "add" /\ arg[t] > 0

====
